---------------------------- MODULE Spec2Model ----------------------------
(***************************************************************************)
(* The streaming turn state machine of the LLM council frontend:           *)
(*   - api.sendMessageStream (frontend/src/main.jsx): opens the channel,   *)
(*     reads it chunk by chunk, splits each chunk into lines, parses every  *)
(*     "data: " line and hands the event to the onEvent callback;          *)
(*   - App (frontend/src/App.jsx): handleSendMessage with its onEvent      *)
(*     switch, handleStopGeneration, handleRegenerateMessage;              *)
(*   - ChatInterface (frontend/src/components/ChatInterface.jsx): the      *)
(*     conditions under which the form, the stop button and the regenerate *)
(*     button call those handlers.                                         *)
(* Text on the channel is a sequence of one-character strings.  JavaScript *)
(* runs a handler to its next await without interleaving, so one action is *)
(* one such run; React applies the queued state updaters in call order.    *)
(***************************************************************************)
EXTENDS Integers, Sequences, FiniteSets, TLC

\* ------------------------------------------------------------------ bounds

\* handleSendMessage runs at most this many times (sendTurn and regenerate)
MaxTurns == 2
\* turns in the specification that cuts the channel at every position
MaxChunkTurns == 1
\* chunks a response is delivered in, in that specification
MaxChunks == 3
\* turns in the specification with fairness
MaxLiveTurns == 1
\* turns in the specification whose chunks carry one or more whole records
MaxBatchTurns == 2
\* turns in the specification with the conversation list
MaxSwitchTurns == 1
\* providers offered on the settings page
MaxProviders == 4

\* ------------------------------------------------------- JavaScript values

Null == "null"
Undefined == "undefined"
EmptyList == "[]"
\* abortControllerRef.current = null
NoController == 0
\* an event type that no case of the switch names
Other == "?"

\* ------------------------------------------------------------------- text

Q == "\""
NL == "\n"
Digits == {"1", "2", "3", "4", "5", "6", "7", "8", "9"}

\* the spelling of the strings that travel on the channel
Chars ==
  [ simple_mode_start |-> <<"s", "i", "m", "p", "l", "e", "_", "m", "o", "d", "e", "_", "s", "t", "a", "r", "t">>,
    simple_mode_complete |-> <<"s", "i", "m", "p", "l", "e", "_", "m", "o", "d", "e", "_", "c", "o", "m", "p", "l", "e", "t", "e">>,
    stage1_start |-> <<"s", "t", "a", "g", "e", "1", "_", "s", "t", "a", "r", "t">>,
    stage1_complete |-> <<"s", "t", "a", "g", "e", "1", "_", "c", "o", "m", "p", "l", "e", "t", "e">>,
    stage2_start |-> <<"s", "t", "a", "g", "e", "2", "_", "s", "t", "a", "r", "t">>,
    stage2_complete |-> <<"s", "t", "a", "g", "e", "2", "_", "c", "o", "m", "p", "l", "e", "t", "e">>,
    stage3_start |-> <<"s", "t", "a", "g", "e", "3", "_", "s", "t", "a", "r", "t">>,
    stage3_complete |-> <<"s", "t", "a", "g", "e", "3", "_", "c", "o", "m", "p", "l", "e", "t", "e">>,
    title_complete |-> <<"t", "i", "t", "l", "e", "_", "c", "o", "m", "p", "l", "e", "t", "e">>,
    complete |-> <<"c", "o", "m", "p", "l", "e", "t", "e">>,
    error |-> <<"e", "r", "r", "o", "r">>,
    cancelled |-> <<"c", "a", "n", "c", "e", "l", "l", "e", "d">>,
    foo_bar |-> <<"f", "o", "o", "_", "b", "a", "r">>,
    type |-> <<"t", "y", "p", "e">>,
    data |-> <<"d", "a", "t", "a">>,
    metadata |-> <<"m", "e", "t", "a", "d", "a", "t", "a">> ]

\* the JavaScript string spelled by a character sequence
Intern(cs) ==
  IF \E n \in DOMAIN Chars : Chars[n] = cs
    THEN CHOOSE n \in DOMAIN Chars : Chars[n] = cs
    ELSE Other

\* line.startsWith("data: ")
DataPrefix == <<"d", "a", "t", "a", ":", " ">>
\* line.slice(6)
PrefixLen == 6

startsWith(line, prefix) ==
  /\ Len(line) >= Len(prefix)
  /\ SubSeq(line, 1, Len(prefix)) = prefix

\* line.slice(n): the line without its first n characters
sliceFrom(line, n) == SubSeq(line, n + 1, Len(line))

RECURSIVE split(_)
\* chunk.split("\n"): the pieces between the newlines, the last one included
split(chunk) ==
  IF \E i \in 1..Len(chunk) : chunk[i] = NL
    THEN LET i == CHOOSE k \in 1..Len(chunk) :
                     /\ chunk[k] = NL
                     /\ \A j \in 1..(k - 1) : chunk[j] # NL
         IN <<SubSeq(chunk, 1, i - 1)>> \o split(SubSeq(chunk, i + 1, Len(chunk)))
    ELSE <<chunk>>

\* ------------------------------------------------------------ JSON.parse
\* JSON.parse on the texts the channel carries: a flat object whose values
\* are strings or one-digit numbers.  Every other text of the model (a
\* record cut short, the rest of a cut record, the empty text) is not JSON
\* and makes JSON.parse throw: ok = FALSE.

ParseError == [ok |-> FALSE, type |-> Undefined, data |-> Undefined, metadata |-> Undefined]
EmptyObject == [ok |-> TRUE, type |-> Undefined, data |-> Undefined, metadata |-> Undefined]

RECURSIVE StringEnd(_, _)
\* the index of the quote that closes a string whose body starts at i, or 0
StringEnd(s, i) ==
  IF i > Len(s) THEN 0
  ELSE IF s[i] = Q THEN i
  ELSE StringEnd(s, i + 1)

\* obj with the member key set to value; a key the program never reads is dropped
SetMember(obj, key, value) ==
  IF key = "type" THEN [obj EXCEPT !.type = value]
  ELSE IF key = "data" THEN [obj EXCEPT !.data = value]
  ELSE IF key = "metadata" THEN [obj EXCEPT !.metadata = value]
  ELSE obj

RECURSIVE ParseMembers(_, _, _)
\* the members of an object from position i on, up to the closing brace that ends s
ParseMembers(s, i, obj) ==
  IF i > Len(s) \/ s[i] # Q THEN ParseError
  ELSE
    LET kEnd == StringEnd(s, i + 1) IN
    IF kEnd = 0 \/ kEnd + 2 > Len(s) \/ s[kEnd + 1] # ":" THEN ParseError
    ELSE
      LET key == Intern(SubSeq(s, i + 1, kEnd - 1))
          v == kEnd + 2
          vEnd == IF s[v] = Q THEN StringEnd(s, v + 1)
                  ELSE IF s[v] \in Digits THEN v
                  ELSE 0
      IN
      IF vEnd = 0 \/ vEnd + 1 > Len(s) THEN ParseError
      ELSE
        LET value == IF s[v] = Q THEN Intern(SubSeq(s, v + 1, vEnd - 1)) ELSE s[v]
            next == SetMember(obj, key, value)
        IN
        IF s[vEnd + 1] = "," THEN ParseMembers(s, vEnd + 2, next)
        ELSE IF s[vEnd + 1] = "}" /\ vEnd + 1 = Len(s) THEN next
        ELSE ParseError

JSONparse(s) ==
  IF Len(s) < 2 \/ s[1] # "{" THEN ParseError
  ELSE IF Len(s) = 2 /\ s[2] = "}" THEN EmptyObject
  ELSE ParseMembers(s, 2, EmptyObject)

\* a decoder that hands over an event for a payload that does not parse
DecodeLine_deliversBroken(line) ==
  IF startsWith(line, DataPrefix)
    THEN <<JSONparse(sliceFrom(line, PrefixLen))>>
    ELSE <<>>

\* the events one line yields: the parsed event of a "data: " line, nothing
\* for any other line and for a line whose payload does not parse
DecodeLine(line) ==
  IF startsWith(line, DataPrefix)
    THEN LET event == JSONparse(sliceFrom(line, PrefixLen))
         IN IF event.ok THEN <<event>> ELSE <<>>
    ELSE <<>>

RECURSIVE DecodeLines(_)
DecodeLines(lines) ==
  IF lines = <<>> THEN <<>>
  ELSE DecodeLine(Head(lines)) \o DecodeLines(Tail(lines))

\* the events of one delivered chunk, in the order of its lines
DecodeChunk(chunk) == DecodeLines(split(chunk))

\* ---------------------------------------------------------- orchestrator
\* What the streaming endpoint puts on the channel: one "data: " line per
\* record, its payload the JSON text of {type, data?, metadata?}.

Ev(t) == [type |-> t, data |-> Undefined, metadata |-> Undefined, bad |-> FALSE]
EvData(t, d) == [type |-> t, data |-> d, metadata |-> Undefined, bad |-> FALSE]
EvMeta(t, d) == [type |-> t, data |-> d, metadata |-> d, bad |-> FALSE]
\* a record whose payload lost its closing brace
EvBad(t) == [type |-> t, data |-> Undefined, metadata |-> Undefined, bad |-> TRUE]

Str(n) == <<Q>> \o Chars[n] \o <<Q>>

Json(rec) ==
  LET whole ==
        <<"{">> \o Str("type") \o <<":">> \o Str(rec.type)
        \o (IF rec.data = Undefined THEN <<>>
            ELSE <<",">> \o Str("data") \o <<":", rec.data>>)
        \o (IF rec.metadata = Undefined THEN <<>>
            ELSE <<",">> \o Str("metadata") \o <<":", rec.metadata>>)
        \o <<"}">>
  IN IF rec.bad THEN SubSeq(whole, 1, Len(whole) - 1) ELSE whole

Frame(rec) == DataPrefix \o Json(rec) \o <<NL>>

RECURSIVE Stream(_)
\* the text of a whole response
Stream(script) ==
  IF script = <<>> THEN <<>>
  ELSE Frame(Head(script)) \o Stream(Tail(script))

\* the payload value the orchestrator sends in its n-th response
Digit(n) == <<"1", "2", "3", "4", "5", "6", "7", "8", "9">>[n]

Staged(d) ==
  << Ev("stage1_start"), EvData("stage1_complete", d),
     Ev("stage2_start"), EvMeta("stage2_complete", d),
     Ev("stage3_start"), EvData("stage3_complete", d),
     Ev("title_complete"), Ev("complete") >>
SimpleThenStaged(d) ==
  << Ev("simple_mode_start"), EvData("simple_mode_complete", d),
     Ev("stage1_start"), EvData("stage1_complete", d), Ev("complete") >>
UnknownThenComplete(d) == << Ev("foo_bar"), Ev("complete") >>
ErrorThenMore(d) ==
  << Ev("stage1_start"), EvData("stage1_complete", d), Ev("stage2_start"), Ev("error"),
     EvData("stage3_complete", d), Ev("complete") >>
OutOfOrder(d) ==
  << EvMeta("stage2_complete", d), EvData("stage1_complete", d),
     Ev("stage1_start"), Ev("complete") >>
Cancelled(d) ==
  << Ev("simple_mode_start"), Ev("stage1_start"), Ev("cancelled"), Ev("cancelled") >>
Malformed(d) ==
  << Ev("stage1_start"), EvBad("stage1_complete"), EvData("stage1_complete", d) >>
Repeated(d) ==
  << Ev("stage1_start"), EvData("stage1_complete", d), Ev("stage1_start") >>

\* the responses the orchestrator may give to the turn whose payloads are d
Scripts(d) ==
  { Staged(d), SimpleThenStaged(d), UnknownThenComplete(d), ErrorThenMore(d),
    OutOfOrder(d), Cancelled(d), Malformed(d), Repeated(d) }

\* the responses of the specification that cuts the channel at every position
ChunkScripts(d) == { << Ev("stage1_start") >>, << Ev("stage1_start"), Ev("complete") >> }

\* the responses of the specification whose chunks carry several records
BatchScripts(d) ==
  { SimpleThenStaged(d), UnknownThenComplete(d), ErrorThenMore(d), Malformed(d) }

\* what the user types into the form for the n-th turn
input(n) == <<"q1", "q2", "q3", "q4", "q5">>[n]

\* ------------------------------------------------------------------ state

VARIABLES
  currentConversationId,  \* useState(null): the selected conversation
  currentConversation,    \* useState(null): {id, messages}
  isLoading,              \* useState(false)
  abortControllerRef,     \* useRef(null): the number of the turn whose controller it holds
  sessions,               \* one entry per run of handleSendMessage
  cancelPending,          \* runs of handleStopGeneration awaiting api.cancelRequest
  toast,                  \* the last toast shown
  crashed,                \* a state updater threw while React rendered
  hist,                   \* per message: the event types handled while it was the last message
  conversations,          \* useState([]): the ids of the conversations in the sidebar
  loads,                  \* the ids whose api.getConversation is on its way
  settings,               \* Settings: useState({chairman: "", experts: [], ...})
  settingsOp              \* the last handler of Settings that ran, and the state it found

vars == <<currentConversationId, currentConversation, isLoading, abortControllerRef,
          sessions, cancelPending, toast, crashed, hist, conversations, loads,
          settings, settingsOp>>

NoConversation == [id |-> Null, messages |-> <<>>]

Messages == currentConversation.messages

userMessage(content) == [role |-> "user", content |-> content]

assistantMessage ==
  [ role |-> "assistant",
    stage1 |-> Null, stage2 |-> Null, stage3 |-> Null,
    simpleResponse |-> Null, metadata |-> Null,
    loading |-> [stage1 |-> FALSE, stage2 |-> FALSE, stage3 |-> FALSE,
                 simple |-> FALSE, stage1Models |-> Undefined] ]

\* array.slice(0, n) for n >= 0 and array.slice(0, -n) for n < 0
slice0(array, n) ==
  LET end == IF n >= 0 THEN n ELSE Len(array) + n
      stop == IF end > Len(array) THEN Len(array) ELSE end
  IN IF stop <= 0 THEN <<>> ELSE SubSeq(array, 1, stop)

\* an assistant message as api.getConversation returns it: a finished staged
\* turn, without the loading object that only handleSendMessage adds
storedAssistant ==
  [ role |-> "assistant", stage1 |-> "9", stage2 |-> "9", stage3 |-> "9",
    metadata |-> "9" ]

\* the conversations loadConversation may have put into currentConversation:
\* a new one, and one with a finished turn
Stored == { <<>>, << userMessage("q0"), storedAssistant >> }

\* Init: a conversation has been selected and loaded; nothing was sent yet.
Init ==
  /\ currentConversationId = "c1"
  /\ \E stored \in Stored :
       /\ currentConversation = [id |-> "c1", messages |-> stored]
       /\ hist = [i \in 1..Len(stored) |-> <<>>]
  /\ isLoading = FALSE
  /\ abortControllerRef = NoController
  /\ sessions = <<>>
  /\ cancelPending = 0
  /\ toast = "none"
  /\ crashed = FALSE
  /\ conversations = {"c1", "c2"}
  /\ loads = {}
  /\ settings = [chairman |-> "", experts |-> <<>>]
  /\ settingsOp = [op |-> "none", providerId |-> "", prev |-> settings]

\* ---------------------------------------------------------------- onEvent
\* The callback handleSendMessage passes to api.sendMessageStream.  It works
\* on st = the React state the queued updaters see; every updater takes the
\* last message of prev.messages.

View ==
  [ messages |-> Messages, hist |-> hist, isLoading |-> isLoading,
    abortControllerRef |-> abortControllerRef, toast |-> toast, crashed |-> crashed ]

\* a search for the first assistant message without simpleResponse and stage3
lastIndex_firstPending(messages) ==
  LET pending == { i \in 1..Len(messages) :
                     /\ "loading" \in DOMAIN messages[i]
                     /\ messages[i].simpleResponse = Null
                     /\ messages[i].stage3 = Null }
  IN IF pending = {} THEN Len(messages)
     ELSE CHOOSE i \in pending : \A j \in pending : i <= j

\* messages[messages.length - 1], as a position counted from 1
lastIndex(messages) == Len(messages)

\* lastMsg.loading is an object
hasLoading(msg) == "loading" \in DOMAIN msg

simple_mode_start_case(lastMsg, event) ==
  [lastMsg EXCEPT !.loading.simple = TRUE]

simple_mode_complete_case(lastMsg, event) ==
  [lastMsg EXCEPT !.simpleResponse = event.data, !.loading.simple = FALSE]

stage1_start_case(lastMsg, event) ==
  [lastMsg EXCEPT !.loading.stage1 = TRUE, !.loading.stage1Models = EmptyList]

\* stage1_complete that is ignored unless stage1 is loading
stage1_complete_case_needsStart(lastMsg, event) ==
  IF lastMsg.loading.stage1
    THEN [lastMsg EXCEPT !.stage1 = event.data, !.loading.stage1 = FALSE]
    ELSE lastMsg

stage1_complete_case(lastMsg, event) ==
  [lastMsg EXCEPT !.stage1 = event.data, !.loading.stage1 = FALSE]

stage2_start_case(lastMsg, event) ==
  [lastMsg EXCEPT !.loading.stage2 = TRUE]

\* stage2_complete that leaves loading.stage2 on
stage2_complete_case_keepsFlag(lastMsg, event) ==
  [lastMsg EXCEPT !.stage2 = event.data, !.metadata = event.metadata]

stage2_complete_case(lastMsg, event) ==
  [lastMsg EXCEPT !.stage2 = event.data, !.metadata = event.metadata,
                  !.loading.stage2 = FALSE]

stage3_start_case(lastMsg, event) ==
  [lastMsg EXCEPT !.loading.stage3 = TRUE]

stage3_complete_case(lastMsg, event) ==
  [lastMsg EXCEPT !.stage3 = event.data, !.loading.stage3 = FALSE]

\* aborted that clears what cancelled clears: the stage flags only
aborted_case_stagesOnly(lastMsg, event) ==
  [lastMsg EXCEPT !.loading.stage1 = FALSE, !.loading.stage2 = FALSE,
                  !.loading.stage3 = FALSE]

aborted_case(lastMsg, event) ==
  [lastMsg EXCEPT !.loading.stage1 = FALSE, !.loading.stage2 = FALSE,
                  !.loading.stage3 = FALSE, !.loading.simple = FALSE]

cancelled_case(lastMsg, event) ==
  [lastMsg EXCEPT !.loading.stage1 = FALSE, !.loading.stage2 = FALSE,
                  !.loading.stage3 = FALSE]

\* an end of turn that also removes the turn's two messages, as the catch does
finalize_removesPair(st, t) ==
  [st EXCEPT !.isLoading = FALSE, !.abortControllerRef = NoController, !.toast = t,
             !.messages = slice0(st.messages, -2), !.hist = slice0(st.hist, -2)]

\* setIsLoading(false); abortControllerRef.current = null
finalize(st, t) ==
  [st EXCEPT !.isLoading = FALSE, !.abortControllerRef = NoController, !.toast = t]

\* the updater's result put in place of the last message
replaceLast(st, msg) ==
  [st EXCEPT !.messages = [st.messages EXCEPT ![lastIndex(st.messages)] = msg]]

\* an updater that reads lastMsg.loading.x: a TypeError when there is no last
\* message or it is a user message; React then unmounts the application
updateLast(st, msg) ==
  IF Len(st.messages) = 0 \/ ~hasLoading(st.messages[lastIndex(st.messages)])
    THEN [st EXCEPT !.crashed = TRUE]
    ELSE replaceLast(st, msg)

\* an updater that tests lastMsg.loading first: a TypeError only when there
\* is no last message
updateLastIfLoading(st, msg) ==
  IF Len(st.messages) = 0 THEN [st EXCEPT !.crashed = TRUE]
  ELSE IF hasLoading(st.messages[lastIndex(st.messages)]) THEN replaceLast(st, msg)
  ELSE st

\* a default branch that treats an unknown event as the end of the turn
default_case_finalizes(st, eventType) == finalize(st, "error")

\* default: console.log("Unknown event type:", eventType)
default_case(st, eventType) == st

\* the switch on eventType
dispatch(st, eventType, event) ==
  LET lastMsg == IF Len(st.messages) = 0 \/ ~hasLoading(st.messages[lastIndex(st.messages)])
                   THEN assistantMessage
                   ELSE st.messages[lastIndex(st.messages)]
  IN
  CASE eventType = "simple_mode_start" ->
         [updateLast(st, simple_mode_start_case(lastMsg, event)) EXCEPT !.toast = "simple"]
    [] eventType = "simple_mode_complete" ->
         updateLast(st, simple_mode_complete_case(lastMsg, event))
    [] eventType = "stage1_start" ->
         updateLast(st, stage1_start_case(lastMsg, event))
    [] eventType = "stage1_complete" ->
         updateLast(st, stage1_complete_case(lastMsg, event))
    [] eventType = "stage2_start" ->
         updateLast(st, stage2_start_case(lastMsg, event))
    [] eventType = "stage2_complete" ->
         updateLast(st, stage2_complete_case(lastMsg, event))
    [] eventType = "stage3_start" ->
         updateLast(st, stage3_start_case(lastMsg, event))
    [] eventType = "stage3_complete" ->
         updateLast(st, stage3_complete_case(lastMsg, event))
    [] eventType = "title_complete" -> st
    [] eventType = "complete" -> finalize(st, "complete")
    [] eventType = "error" -> finalize(st, "error")
    [] eventType = "aborted" ->
         updateLastIfLoading(st, aborted_case(lastMsg, event))
    [] eventType = "cancelled" ->
         finalize(updateLastIfLoading(st, cancelled_case(lastMsg, event)), st.toast)
    [] OTHER -> default_case(st, eventType)

\* one call of the callback; hist records it against the message that was last
onEvent(st, eventType, event) ==
  IF st.crashed THEN st
  ELSE
    LET after == dispatch(st, eventType, event)
        n == Len(st.messages)
    IN IF n = 0 THEN after
       ELSE [after EXCEPT !.hist[n] = Append(st.hist[n], eventType)]

RECURSIVE onEvents_lastFirst(_, _)
\* a loop that hands over the events of a chunk from the last line to the first
onEvents_lastFirst(st, events) ==
  IF events = <<>> THEN st
  ELSE onEvent(onEvents_lastFirst(st, Tail(events)), Head(events).type, Head(events))

RECURSIVE onEvents(_, _)
\* the for loop over the lines of one chunk
onEvents(st, events) ==
  IF events = <<>> THEN st
  ELSE onEvents(onEvent(st, Head(events).type, Head(events)), Tail(events))

RECURSIVE Types(_)
Types(events) ==
  IF events = <<>> THEN <<>> ELSE <<Head(events).type>> \o Types(Tail(events))

\* the React state after the updaters ran
Commit(st) ==
  /\ currentConversation' = [currentConversation EXCEPT !.messages = st.messages]
  /\ hist' = st.hist
  /\ isLoading' = st.isLoading
  /\ abortControllerRef' = st.abortControllerRef
  /\ toast' = st.toast
  /\ crashed' = st.crashed

\* ----------------------------------------------------------------- actions

\* a handleSendMessage that appends the partial assistant message first
handleSendMessage_assistantFirst(content, base, baseHist, op, arg, shown) ==
  /\ currentConversationId # Null
  /\ abortControllerRef' = Len(sessions) + 1
  /\ isLoading' = TRUE
  /\ currentConversation' =
       [currentConversation EXCEPT
          !.messages = base \o <<assistantMessage, userMessage(content)>>]
  /\ hist' = baseHist \o << <<>>, <<>> >>
  /\ sessions' = Append(sessions,
       [ pc |-> "opening", content |-> content, wire |-> <<>>, sent |-> <<>>,
         delivered |-> <<>>, cuts |-> <<>>, op |-> op, arg |-> arg, before |-> base,
         conversationId |-> currentConversationId ])
  /\ toast' = shown
  /\ UNCHANGED <<settings, settingsOp, conversations, loads, currentConversationId, cancelPending, crashed>>

\* handleSendMessage up to its first await (the fetch of sendMessageStream):
\* a new AbortController, isLoading, the optimistic user message and the
\* partial assistant message appended to base, the request on its way.
\* The entry of sessions keeps, beside the request, how it was called and
\* the messages it started from.
handleSendMessage(content, base, baseHist, op, arg, shown) ==
  /\ currentConversationId # Null
  /\ abortControllerRef' = Len(sessions) + 1
  /\ isLoading' = TRUE
  /\ currentConversation' =
       [currentConversation EXCEPT
          !.messages = base \o <<userMessage(content), assistantMessage>>]
  /\ hist' = baseHist \o << <<>>, <<>> >>
  /\ sessions' = Append(sessions,
       [ pc |-> "opening", content |-> content, wire |-> <<>>, sent |-> <<>>,
         delivered |-> <<>>, cuts |-> <<>>, op |-> op, arg |-> arg, before |-> base,
         conversationId |-> currentConversationId ])
  /\ toast' = shown
  /\ UNCHANGED <<settings, settingsOp, conversations, loads, currentConversationId, cancelPending, crashed>>

\* ChatInterface.handleSubmit: the form exists when a conversation is shown,
\* and submits a non-empty input when isLoading is false
handleSubmit(content, turns) ==
  /\ ~crashed
  /\ Len(sessions) < turns
  /\ currentConversation # NoConversation
  /\ ~isLoading
  /\ handleSendMessage(content, Messages, hist, "sendTurn", -1, toast)

RECURSIVE walkBack_fromIndex(_, _)
\* a search that starts at messageIndex itself
walkBack_fromIndex(messages, userMessageIndex) ==
  IF userMessageIndex + 1 < Len(messages) /\ messages[userMessageIndex + 2].role = "user"
    THEN userMessageIndex + 1
  ELSE IF userMessageIndex >= 0 /\ messages[userMessageIndex + 1].role # "user"
    THEN walkBack_fromIndex(messages, userMessageIndex - 1)
  ELSE userMessageIndex

RECURSIVE walkBack(_, _)
\* while (userMessageIndex >= 0 && messages[userMessageIndex]?.role !== "user") userMessageIndex--
walkBack(messages, userMessageIndex) ==
  IF userMessageIndex >= 0 /\ messages[userMessageIndex + 1].role # "user"
    THEN walkBack(messages, userMessageIndex - 1)
    ELSE userMessageIndex

\* a cut that keeps the message the button belongs to
truncateTo_keepsTarget(messageIndex, userMessageIndex) == messageIndex + 1

\* a cut that also drops the user message that is sent again
truncateTo_user(messageIndex, userMessageIndex) == userMessageIndex

\* prev.messages.slice(0, messageIndex): the length the conversation is cut
\* to before the message is sent again
truncateTo(messageIndex, userMessageIndex) == messageIndex

\* handleRegenerateMessage(messageIndex), called while isLoading is false
\* with the position of a message of the conversation
handleRegenerateMessage(messageIndex, turns) ==
  /\ ~crashed
  /\ ~isLoading
  /\ currentConversationId # Null
  /\ currentConversation # NoConversation
  /\ messageIndex \in 0..(Len(Messages) - 1)
  /\ LET userMessageIndex == walkBack(Messages, messageIndex - 1) IN
     IF userMessageIndex < 0
       THEN /\ toast' = "notFound"
            /\ UNCHANGED <<settings, settingsOp, conversations, loads, currentConversationId, currentConversation, isLoading,
                           abortControllerRef, sessions, cancelPending, crashed, hist>>
       ELSE LET keep == truncateTo(messageIndex, userMessageIndex) IN
            /\ Len(sessions) < turns
            /\ handleSendMessage(Messages[userMessageIndex + 1].content,
                                 slice0(Messages, keep), slice0(hist, keep),
                                 "regenerate", messageIndex, "regenerating")

\* the fetch resolves with an ok response; the orchestrator's response is chosen
OpenOk(s, script) ==
  /\ ~crashed
  /\ sessions[s].pc = "opening"
  /\ sessions' = [sessions EXCEPT ![s].pc = "streaming",
                                  ![s].wire = Stream(script),
                                  ![s].sent = script]
  /\ UNCHANGED <<settings, settingsOp, conversations, loads, currentConversationId, currentConversation, isLoading,
                 abortControllerRef, cancelPending, toast, crashed, hist>>

\* the catch of handleSendMessage for an error that is not an AbortError
catchError(st) ==
  [st EXCEPT !.messages = slice0(st.messages, -2), !.hist = slice0(st.hist, -2),
             !.isLoading = FALSE, !.abortControllerRef = NoController,
             !.toast = "sendFailed"]

\* a failed request that is sent again
OpenFail_retries(s) ==
  /\ ~crashed
  /\ sessions[s].pc = "opening"
  /\ sessions' = Append([sessions EXCEPT ![s].pc = "failed"],
                        [sessions[s] EXCEPT !.op = "retry"])
  /\ UNCHANGED <<settings, settingsOp, conversations, loads, currentConversationId, currentConversation, isLoading,
                 abortControllerRef, cancelPending, toast, crashed, hist>>

\* the fetch rejects (network) or the response is not ok: sendMessageStream throws
OpenFail(s) ==
  /\ ~crashed
  /\ sessions[s].pc = "opening"
  /\ sessions' = [sessions EXCEPT ![s].pc = "failed"]
  /\ Commit(catchError(View))
  /\ UNCHANGED <<settings, settingsOp, conversations, loads, currentConversationId, cancelPending>>

\* a reader that goes on after the controller was aborted
ReadChunk_ignoresAbort(s, n) ==
  /\ ~crashed
  /\ sessions[s].pc \in {"streaming", "aborted"}
  /\ n \in 1..Len(sessions[s].wire)
  /\ LET chunk == SubSeq(sessions[s].wire, 1, n)
         events == DecodeChunk(chunk)
     IN /\ sessions' = [sessions EXCEPT
                          ![s].wire = SubSeq(sessions[s].wire, n + 1, Len(sessions[s].wire)),
                          ![s].delivered = sessions[s].delivered \o Types(events),
                          ![s].cuts = Append(sessions[s].cuts, n)]
        /\ Commit(onEvents(View, events))
  /\ UNCHANGED <<settings, settingsOp, conversations, loads, currentConversationId, cancelPending>>

\* reader.read() resolves with the next n characters of the channel; every
\* line of the chunk is decoded and handed to onEvent before the next read
ReadChunk(s, n) ==
  /\ ~crashed
  /\ sessions[s].pc = "streaming"
  /\ n \in 1..Len(sessions[s].wire)
  /\ LET chunk == SubSeq(sessions[s].wire, 1, n)
         events == DecodeChunk(chunk)
     IN /\ sessions' = [sessions EXCEPT
                          ![s].wire = SubSeq(sessions[s].wire, n + 1, Len(sessions[s].wire)),
                          ![s].delivered = sessions[s].delivered \o Types(events),
                          ![s].cuts = Append(sessions[s].cuts, n)]
        /\ Commit(onEvents(View, events))
  /\ UNCHANGED <<settings, settingsOp, conversations, loads, currentConversationId, cancelPending>>

\* the position of the first newline of the channel
firstLine(wire) ==
  CHOOSE k \in 1..Len(wire) : wire[k] = NL /\ \A j \in 1..(k - 1) : wire[j] # NL

\* reader.read() resolves with done: sendMessageStream and handleSendMessage return
ReadDone(s) ==
  /\ ~crashed
  /\ sessions[s].pc = "streaming"
  /\ sessions[s].wire = <<>>
  /\ sessions' = [sessions EXCEPT ![s].pc = "done"]
  /\ UNCHANGED <<settings, settingsOp, conversations, loads, currentConversationId, currentConversation, isLoading,
                 abortControllerRef, cancelPending, toast, crashed, hist>>

\* reader.read() rejects with an error that is not an AbortError: rethrown
\* by sendMessageStream and caught by handleSendMessage
ReadFail(s) ==
  /\ ~crashed
  /\ sessions[s].pc = "streaming"
  /\ sessions' = [sessions EXCEPT ![s].pc = "failed"]
  /\ Commit(catchError(View))
  /\ UNCHANGED <<settings, settingsOp, conversations, loads, currentConversationId, cancelPending>>

\* a stop whose AbortError, for a fetch still pending, reaches the rollback of
\* the catch
handleStopGeneration_rollsBack ==
  /\ ~crashed
  /\ isLoading
  /\ abortControllerRef # NoController
  /\ LET c == abortControllerRef
         st0 == [View EXCEPT !.abortControllerRef = NoController]
         st1 == IF sessions[c].pc = "streaming"
                  THEN onEvent(st0, "aborted", Ev("aborted"))
                  ELSE IF sessions[c].pc = "opening" THEN catchError(st0)
                  ELSE st0
         st2 == IF currentConversationId # Null
                  THEN st1
                  ELSE [st1 EXCEPT !.isLoading = FALSE, !.toast = "stopped"]
     IN /\ sessions' =
             IF sessions[c].pc = "streaming"
               THEN [sessions EXCEPT ![c].pc = "aborted",
                                     ![c].delivered = Append(sessions[c].delivered, "aborted")]
             ELSE IF sessions[c].pc = "opening"
               THEN [sessions EXCEPT ![c].pc = "aborted"]
             ELSE sessions
        /\ Commit(st2)
        /\ cancelPending' = IF currentConversationId # Null
                              THEN cancelPending + 1 ELSE cancelPending
  /\ UNCHANGED <<settings, settingsOp, conversations, loads, currentConversationId>>

\* handleStopGeneration up to its await, with what abort() sets off before
\* any other task runs: a pending fetch rejects with an AbortError, which
\* handleSendMessage swallows; a pending reader.read() rejects with an
\* AbortError, for which sendMessageStream calls onEvent("aborted").
\* The stop button exists while isLoading is true.
handleStopGeneration ==
  /\ ~crashed
  /\ isLoading
  /\ abortControllerRef # NoController
  /\ LET c == abortControllerRef
         st0 == [View EXCEPT !.abortControllerRef = NoController]
         st1 == IF sessions[c].pc = "streaming"
                  THEN onEvent(st0, "aborted", Ev("aborted"))
                  ELSE st0
         st2 == IF currentConversationId # Null
                  THEN st1
                  ELSE [st1 EXCEPT !.isLoading = FALSE, !.toast = "stopped"]
     IN /\ sessions' =
             IF sessions[c].pc = "streaming"
               THEN [sessions EXCEPT ![c].pc = "aborted",
                                     ![c].delivered = Append(sessions[c].delivered, "aborted")]
             ELSE IF sessions[c].pc = "opening"
               THEN [sessions EXCEPT ![c].pc = "aborted"]
             ELSE sessions
        /\ Commit(st2)
        /\ cancelPending' = IF currentConversationId # Null
                              THEN cancelPending + 1 ELSE cancelPending
  /\ UNCHANGED <<settings, settingsOp, conversations, loads, currentConversationId>>

\* api.cancelRequest returns (it never throws): setIsLoading(false) and the toast
CancelReturn ==
  /\ ~crashed
  /\ cancelPending > 0
  /\ cancelPending' = cancelPending - 1
  /\ isLoading' = FALSE
  /\ toast' = "stopped"
  /\ UNCHANGED <<settings, settingsOp, conversations, loads, currentConversationId, currentConversation, abortControllerRef,
                 sessions, crashed, hist>>

\* ---------------------------------------------------------- specifications

\* The orchestrator flushes one record per chunk.
Next ==
  \/ handleSubmit(input(Len(sessions) + 1), MaxTurns)
  \/ \E i \in 0..(2 * MaxTurns) : handleRegenerateMessage(i, MaxTurns)
  \/ \E s \in 1..Len(sessions) : \E script \in Scripts(Digit(s)) : OpenOk(s, script)
  \/ \E s \in 1..Len(sessions) : OpenFail(s)
  \/ \E s \in 1..Len(sessions) :
       /\ sessions[s].wire # <<>>
       /\ ReadChunk(s, firstLine(sessions[s].wire))
  \/ \E s \in 1..Len(sessions) : ReadDone(s)
  \/ \E s \in 1..Len(sessions) : ReadFail(s)
  \/ handleStopGeneration
  \/ CancelReturn

Spec == Init /\ [][Next]_vars

\* The channel is cut at every position: a chunk is any non-empty prefix of
\* what is still to come, the last of MaxChunks chunks all of it.
NextChunks ==
  \/ handleSubmit(input(Len(sessions) + 1), MaxChunkTurns)
  \/ \E s \in 1..Len(sessions) : \E script \in ChunkScripts(Digit(s)) : OpenOk(s, script)
  \/ \E s \in 1..Len(sessions) : \E n \in 1..Len(sessions[s].wire) :
       /\ Len(sessions[s].cuts) + 1 = MaxChunks => n = Len(sessions[s].wire)
       /\ ReadChunk(s, n)
  \/ \E s \in 1..Len(sessions) : ReadDone(s)

SpecChunks == Init /\ [][NextChunks]_vars

\* Every chunk carries one or more whole records: it ends at any newline of
\* what is still to come.
NextBatch ==
  \/ handleSubmit(input(Len(sessions) + 1), MaxBatchTurns)
  \/ \E s \in 1..Len(sessions) : \E script \in BatchScripts(Digit(s)) : OpenOk(s, script)
  \/ \E s \in 1..Len(sessions) : \E n \in 1..Len(sessions[s].wire) :
       /\ sessions[s].wire[n] = NL
       /\ ReadChunk(s, n)
  \/ \E s \in 1..Len(sessions) : ReadDone(s)

SpecBatch == Init /\ [][NextBatch]_vars

\* the pending fetch of some turn settles
Opens ==
  \E s \in 1..Len(sessions) :
    \/ \E script \in Scripts(Digit(s)) : OpenOk(s, script)
    \/ OpenFail(s)

\* a pending reader.read() of some turn resolves with a chunk
Delivers ==
  \E s \in 1..Len(sessions) :
    /\ sessions[s].wire # <<>>
    /\ ReadChunk(s, firstLine(sessions[s].wire))

\* the channel of some turn ends: it closes after its last chunk, or it fails
Closes ==
  \E s \in 1..Len(sessions) :
    \/ ReadDone(s)
    \/ ReadFail(s)

NextLive ==
  \/ handleSubmit(input(Len(sessions) + 1), MaxLiveTurns)
  \/ \E i \in 0..(2 * MaxLiveTurns) : handleRegenerateMessage(i, MaxLiveTurns)
  \/ Opens
  \/ Delivers
  \/ Closes
  \/ handleStopGeneration
  \/ CancelReturn

\* Every pending fetch settles, every channel that was opened ends and
\* every request of api.cancelRequest returns.  Nothing makes the user act.
SpecLive ==
  Init /\ [][NextLive]_vars /\ WF_vars(Opens) /\ WF_vars(Closes) /\ WF_vars(CancelReturn)

\* The same, but the request of api.cancelRequest may stay without an answer.
SpecNoAck == Init /\ [][NextLive]_vars /\ WF_vars(Opens) /\ WF_vars(Closes)

\* ------------------------------------------------- the conversation list

\* what api.getConversation(id) may return: the server keeps the conversations
getConversation(id) == { [id |-> id, messages |-> stored] : stored \in Stored }

\* the id api.createConversation gives the new conversation
NewId == "c3"

\* handleSelectConversation(id), from a click on an item of the sidebar, and
\* the effect on currentConversationId that follows the render: it calls
\* loadConversation(id), which waits for api.getConversation.  Setting the id
\* that is already selected changes nothing.
handleSelectConversation(id) ==
  /\ ~crashed
  /\ id \in conversations
  /\ id # currentConversationId
  /\ currentConversationId' = id
  /\ loads' = loads \cup {id}
  /\ UNCHANGED <<conversations, currentConversation, isLoading, abortControllerRef,
                 sessions, cancelPending, toast, crashed, hist>>
  /\ UNCHANGED <<settings, settingsOp>>

\* loadConversation after its await: setCurrentConversation(conv), or the
\* toast when the request failed; a conversation that was deleted is not found
loadConversationReturn(id) ==
  /\ ~crashed
  /\ id \in loads
  /\ loads' = loads \ {id}
  /\ \/ /\ id \in conversations
        /\ \E conv \in getConversation(id) :
             /\ currentConversation' = conv
             /\ hist' = [i \in 1..Len(conv.messages) |-> <<>>]
        /\ UNCHANGED toast
     \/ /\ toast' = "loadFailed"
        /\ UNCHANGED <<currentConversation, hist>>
  /\ UNCHANGED <<conversations, currentConversationId, isLoading, abortControllerRef,
                 sessions, cancelPending, crashed>>
  /\ UNCHANGED <<settings, settingsOp>>

\* handleNewConversation after api.createConversation returned: the new
\* conversation is listed and selected, and the effect loads it
handleNewConversation ==
  /\ ~crashed
  /\ NewId \notin conversations
  /\ conversations' = conversations \cup {NewId}
  /\ currentConversationId' = NewId
  /\ loads' = loads \cup {NewId}
  /\ toast' = "created"
  /\ UNCHANGED <<currentConversation, isLoading, abortControllerRef, sessions,
                 cancelPending, crashed, hist>>
  /\ UNCHANGED <<settings, settingsOp>>

\* handleDeleteConversation(id) after api.deleteConversation returned: the
\* conversation leaves the list and, when it is the selected one, both
\* currentConversationId and currentConversation become null
handleDeleteConversation(id) ==
  /\ ~crashed
  /\ id \in conversations
  /\ conversations' = conversations \ {id}
  /\ IF currentConversationId = id
       THEN /\ currentConversationId' = Null
            /\ currentConversation' = NoConversation
            /\ hist' = <<>>
       ELSE UNCHANGED <<currentConversationId, currentConversation, hist>>
  /\ toast' = "deleted"
  /\ UNCHANGED <<loads, isLoading, abortControllerRef, sessions, cancelPending, crashed>>
  /\ UNCHANGED <<settings, settingsOp>>

\* One turn of the staged sequence, one record per chunk, while the user
\* works with the conversation list.
NextSwitch ==
  \/ handleSubmit(input(Len(sessions) + 1), MaxSwitchTurns)
  \/ \E s \in 1..Len(sessions) : OpenOk(s, Staged(Digit(s)))
  \/ Delivers
  \/ \E s \in 1..Len(sessions) : ReadDone(s)
  \/ \E id \in conversations : handleSelectConversation(id)
  \/ \E id \in loads : loadConversationReturn(id)
  \/ handleNewConversation
  \/ \E id \in conversations : handleDeleteConversation(id)

SpecSwitch == Init /\ [][NextSwitch]_vars

\* -------------------------------------------------------- the settings page

\* the ids of settings.all_providers
Providers == { ToString(n) : n \in 1..MaxProviders }

\* array.includes(x)
includes(array, x) == \E i \in 1..Len(array) : array[i] = x

\* array.filter((id) => id !== x)
filter(array, x) ==
  LET keep(id) == id # x IN SelectSeq(array, keep)

\* a chairman selection that leaves the experts as they are
newExperts_unfiltered(prev, providerId) == prev.experts

\* newExperts of handleChairmanSelect when it returns: the experts without
\* the new chairman, and the old chairman pushed when there is one, it is
\* not an expert and the new chairman was one
newExperts(prev, providerId) ==
  LET filtered == filter(prev.experts, providerId)
  IN IF /\ prev.chairman # ""
        /\ ~includes(filtered, prev.chairman)
        /\ includes(prev.experts, providerId)
       THEN Append(filtered, prev.chairman)
       ELSE filtered

\* handleChairmanSelect(providerId), from a click on a chairman card
handleChairmanSelect(providerId) ==
  /\ settings' =
       IF settings.chairman = providerId THEN settings
       ELSE [settings EXCEPT !.chairman = providerId,
                             !.experts = newExperts(settings, providerId)]
  /\ settingsOp' = [op |-> "select", providerId |-> providerId, prev |-> settings]
  /\ UNCHANGED <<currentConversationId, currentConversation, isLoading,
                 abortControllerRef, sessions, cancelPending, toast, crashed, hist,
                 conversations, loads>>

\* handleExpertToggle(providerId), from a click on an expert card; the card
\* of the chairman does not call it
handleExpertToggle(providerId) ==
  /\ settings.chairman # providerId
  /\ settings' =
       [settings EXCEPT !.experts =
          IF includes(settings.experts, providerId)
            THEN filter(settings.experts, providerId)
            ELSE Append(settings.experts, providerId)]
  /\ settingsOp' = [op |-> "toggle", providerId |-> providerId, prev |-> settings]
  /\ UNCHANGED <<currentConversationId, currentConversation, isLoading,
                 abortControllerRef, sessions, cancelPending, toast, crashed, hist,
                 conversations, loads>>

NextSettings ==
  \/ \E providerId \in Providers : handleChairmanSelect(providerId)
  \/ \E providerId \in Providers : handleExpertToggle(providerId)

SpecSettings == Init /\ [][NextSettings]_vars

\* ------------------------------------------------------------------ claims

\* an assistant message that handleSendMessage created
isAssistant(msg) == msg.role = "assistant" /\ hasLoading(msg)
isSet(v) == v # Null /\ v # Undefined
noFlag(msg) ==
  /\ ~msg.loading.simple
  /\ ~msg.loading.stage1
  /\ ~msg.loading.stage2
  /\ ~msg.loading.stage3
Sessions == 1..Len(sessions)
Positions == 1..Len(Messages)

\* C1: a record split across two chunks is delivered to the callback exactly
\* once.  A channel that carried the single record stage1_start and was read
\* to its end in two chunks, the first of which ended inside the record's
\* payload, has delivered exactly one stage1_start event.
C1_SplitRecordDeliveredOnce ==
  \A s \in Sessions :
    ( /\ sessions[s].pc = "done"
      /\ sessions[s].sent = << Ev("stage1_start") >>
      /\ Len(sessions[s].cuts) = 2
      /\ sessions[s].cuts[1] > PrefixLen
      /\ sessions[s].cuts[2] > 1 )
    => sessions[s].delivered = << "stage1_start" >>

notTitle(t) == t # "title_complete"

\* the stages in order, each start followed by its complete, then complete or
\* nothing; title_complete may come anywhere
ValidStaged(h) ==
  LET core == SelectSeq(h, notTitle)
      stages == << "stage1_start", "stage1_complete", "stage2_start",
                   "stage2_complete", "stage3_start", "stage3_complete" >>
  IN core = stages \/ core = Append(stages, "complete")

\* C2: a message that received a valid event sequence ending in
\* stage3_complete or complete has stage1, stage2 and stage3 set and none of
\* its four loading flags on.
C2_ValidSequenceFillsAllStages ==
  \A i \in Positions :
    (isAssistant(Messages[i]) /\ ValidStaged(hist[i]))
    => /\ isSet(Messages[i].stage1)
       /\ isSet(Messages[i].stage2)
       /\ isSet(Messages[i].stage3)
       /\ noFlag(Messages[i])

C2_Witness ==
  \E i \in Positions :
    /\ isAssistant(Messages[i])
    /\ ValidStaged(hist[i])
    /\ hist[i][Len(hist[i])] = "complete"
    /\ ~isLoading

StageEvents ==
  { "stage1_start", "stage1_complete", "stage2_start", "stage2_complete",
    "stage3_start", "stage3_complete" }

\* simple_mode_complete was handled for the message before any stage event
SimpleFirst(h) ==
  \E j \in 1..Len(h) :
    /\ h[j] = "simple_mode_complete"
    /\ \A k \in 1..(j - 1) : h[k] \notin StageEvents

\* C3: a message that took simple_mode_complete before any stage event is
\* simple-mode and stays so: it never carries stage data nor a stage loading flag.
C3_SimpleModeExclusive ==
  \A i \in Positions :
    (isAssistant(Messages[i]) /\ SimpleFirst(hist[i]))
    => /\ isSet(Messages[i].simpleResponse)
       /\ Messages[i].stage1 = Null
       /\ Messages[i].stage2 = Null
       /\ Messages[i].stage3 = Null
       /\ ~Messages[i].loading.stage1
       /\ ~Messages[i].loading.stage2
       /\ ~Messages[i].loading.stage3

\* the step is handleStopGeneration aborting the turn that is streaming
StopsStreaming ==
  /\ abortControllerRef # NoController
  /\ sessions[abortControllerRef].pc = "streaming"
  /\ sessions'[abortControllerRef].pc = "aborted"

\* C4: a local cancel of a streaming turn whose message has loading.stage1 on
\* leaves that message with all four loading flags off, assigns neither
\* simpleResponse nor stage3, and changes no stage datum nor any other message.
C4_CancelClearsFlagsKeepsData ==
  [][ ( /\ StopsStreaming
        /\ Len(Messages) > 0
        /\ isAssistant(Messages[Len(Messages)])
        /\ Messages[Len(Messages)].loading.stage1 )
      => /\ Len(Messages') = Len(Messages)
         /\ noFlag(Messages'[Len(Messages)])
         /\ Messages'[Len(Messages)] =
              [Messages[Len(Messages)] EXCEPT !.loading = Messages'[Len(Messages)].loading]
         /\ \A i \in 1..(Len(Messages) - 1) : Messages'[i] = Messages[i]
    ]_vars

C4_Witness ==
  \E s \in Sessions :
    /\ s = Len(sessions)
    /\ sessions[s].pc = "aborted"
    /\ sessions[s].delivered =
         << "stage2_complete", "stage1_complete", "stage1_start", "aborted" >>
    /\ isSet(Messages[Len(Messages)].stage1)
    /\ isSet(Messages[Len(Messages)].stage2)
    /\ noFlag(Messages[Len(Messages)])

\* the step starts a turn by handleRegenerateMessage
Regenerates ==
  /\ Len(sessions') = Len(sessions) + 1
  /\ sessions'[Len(sessions')].op = "regenerate"

\* the positions before position i, counted from 0, that hold a user message
UsersBefore(i) == { j \in 0..(i - 1) : Messages[j + 1].role = "user" }

\* the nearest of them
NearestUserBefore(i) ==
  CHOOSE k \in UsersBefore(i) : \A j \in UsersBefore(i) : j <= k

\* C5 as stated: regenerate on a turn whose nearest preceding user message is
\* at position k cuts the conversation to length k and then starts a turn
\* with that user message's content.
C5_TruncatesToUserPosition ==
  [][ Regenerates =>
        LET new == sessions'[Len(sessions')]
            k == NearestUserBefore(new.arg)
        IN /\ new.content = Messages[k + 1].content
           /\ Messages' = slice0(Messages, k)
                            \o << userMessage(Messages[k + 1].content), assistantMessage >>
    ]_vars

\* C5 amended: regenerate(turnPosition) on a turn whose nearest preceding
\* user message is at position k cuts the conversation to length
\* turnPosition, which keeps that user message in place, and then starts a
\* turn with that user message's content.
C5_TruncatesToTurnPosition ==
  [][ Regenerates =>
        LET new == sessions'[Len(sessions')]
            k == NearestUserBefore(new.arg)
        IN /\ new.content = Messages[k + 1].content
           /\ new.pc = "opening"
           /\ Messages' = slice0(Messages, new.arg)
                            \o << userMessage(Messages[k + 1].content), assistantMessage >>
    ]_vars

\* a turn started by regenerate two or more positions after the user message
\* it sends again
C5_Witness ==
  \E s \in Sessions :
    /\ sessions[s].op = "regenerate"
    /\ sessions[s].pc = "opening"
    /\ Len(Messages) = sessions[s].arg + 2
    /\ Messages[Len(Messages) - 1] = userMessage(sessions[s].content)
    /\ sessions[s].arg >= 2
    /\ sessions[s].before[sessions[s].arg].role = "assistant"

\* C6: regenerate(i) when no message before position i is a user message
\* shows the not-found toast, leaves the messages as they are and starts no
\* turn: no request, no controller, isLoading as it was.
C6_RegenerateWithoutUserFails ==
  [][ \A i \in 0..(Len(Messages) - 1) :
        (UsersBefore(i) = {} /\ handleRegenerateMessage(i, MaxTurns))
        => /\ toast' = "notFound"
           /\ Messages' = Messages
           /\ sessions' = sessions
           /\ isLoading' = isLoading
           /\ abortControllerRef' = abortControllerRef
    ]_vars

\* the not-found toast on a conversation that has messages
C6_Witness ==
  /\ toast = "notFound"
  /\ Len(Messages) >= 2
  /\ sessions # <<>>
  /\ \A s \in Sessions : sessions[s].op = "sendTurn"

Vocabulary ==
  { "simple_mode_start", "simple_mode_complete", "stage1_start", "stage1_complete",
    "stage2_start", "stage2_complete", "stage3_start", "stage3_complete",
    "title_complete", "complete", "error", "cancelled" }

\* C7: an event whose type is outside the vocabulary changes neither the
\* messages nor isLoading nor the controller held, and a complete that
\* follows it ends the turn: isLoading false, no controller held.
C7_UnknownEventIgnored ==
  [][ \A s \in Sessions :
        /\ ( \E t \in {"foo_bar", Other, Undefined} \ Vocabulary :
               sessions'[s].delivered = Append(sessions[s].delivered, t) )
           => /\ Messages' = Messages
              /\ isLoading' = isLoading
              /\ abortControllerRef' = abortControllerRef
              /\ crashed' = crashed
        /\ ( /\ sessions[s].delivered # <<>>
             /\ sessions[s].delivered[Len(sessions[s].delivered)] \notin Vocabulary
             /\ sessions'[s].delivered = Append(sessions[s].delivered, "complete") )
           => /\ ~isLoading'
              /\ abortControllerRef' = NoController
    ]_vars

C7_Witness ==
  \E s \in Sessions :
    /\ sessions[s].delivered = << "foo_bar", "complete" >>
    /\ ~isLoading
    /\ s = Len(sessions)
    /\ abortControllerRef = NoController
    /\ Messages[Len(Messages)] = assistantMessage

\* C8: when the channel fails to open, no event was applied for the turn,
\* isLoading ends false and the messages are again what they were before
\* the turn's user message and partial assistant message were appended.
C8_OpenFailureRestoresMessages ==
  [][ \A s \in Sessions :
        (sessions[s].pc = "opening" /\ sessions'[s].pc = "failed")
        => /\ sessions'[s].delivered = <<>>
           /\ ~isLoading'
           /\ Messages' = sessions[s].before
    ]_vars

\* an assistant message without terminal data: neither simpleResponse nor stage3
isPending(msg) ==
  /\ isAssistant(msg)
  /\ ~isSet(msg.simpleResponse)
  /\ ~isSet(msg.stage3)

isOpen(s) == sessions[s].pc \in {"opening", "streaming"}

\* C10: at most one turn has its request pending or its channel being read,
\* the form and the regenerate button being used only while isLoading is false.
C10_AtMostOneOpenSession ==
  Cardinality({ s \in Sessions : isOpen(s) }) <= 1

\* C11: once the channel of a turn has closed, isLoading eventually becomes
\* false, whether or not a complete event was received.
C11_ClosedChannelEndsLoading ==
  (\E s \in Sessions : sessions[s].pc = "done") ~> ~isLoading

\* C12: after a cancel request isLoading becomes false even if
\* api.cancelRequest never returns: it does so in every behaviour of
\* SpecNoAck, where nothing makes that request return.
C12_CancelDoesNotWait ==
  (cancelPending > 0) ~> ~isLoading

wellFormed(rec) == ~rec.bad

Unread(s, ss) == Cardinality({ i \in 1..Len(ss[s].wire) : ss[s].wire[i] = NL })

\* the records of turn s that arrive in the step
Arrived(s) ==
  SubSeq(sessions[s].sent, Len(sessions[s].sent) - Unread(s, sessions) + 1,
                           Len(sessions[s].sent) - Unread(s, sessions'))

Kept(i, v, w) == isSet(v) => (i <= Len(Messages') /\ isSet(w))

\* C15: stage data set on an assistant message is never cleared or removed
\* by a later event or failure; only regenerate removes it.  In every step
\* that is not a regenerate, every assistant message that carries stage1,
\* stage2, stage3 or simpleResponse is still there afterwards and still
\* carries it.
C15_StageDataNeverRemoved ==
  [][ ~Regenerates =>
        \A i \in Positions :
          isAssistant(Messages[i]) =>
            /\ Kept(i, Messages[i].stage1, Messages'[i].stage1)
            /\ Kept(i, Messages[i].stage2, Messages'[i].stage2)
            /\ Kept(i, Messages[i].stage3, Messages'[i].stage3)
            /\ Kept(i, Messages[i].simpleResponse, Messages'[i].simpleResponse)
    ]_vars

\* the event type t is among the events h
Seen(h, t) == \E k \in 1..Len(h) : h[k] = t

\* the flag goes from false to true
Rises(f, g) == ~f /\ g

\* C16: within a turn a loading flag goes false -> true -> false at most
\* once.  Only its start event sets a flag, so: when a flag of the last
\* message goes from false to true, the message has not handled the start
\* event of that flag before, whatever the channel delivers.
C16_FlagsRiseOnce ==
  [][ ( /\ Len(Messages') = Len(Messages)
        /\ Len(Messages) > 0
        /\ isAssistant(Messages[Len(Messages)])
        /\ isAssistant(Messages'[Len(Messages)]) )
      => LET old == Messages[Len(Messages)].loading
             new == Messages'[Len(Messages)].loading
             h == hist[Len(Messages)]
         IN /\ Rises(old.simple, new.simple) => ~Seen(h, "simple_mode_start")
            /\ Rises(old.stage1, new.stage1) => ~Seen(h, "stage1_start")
            /\ Rises(old.stage2, new.stage2) => ~Seen(h, "stage2_start")
            /\ Rises(old.stage3, new.stage3) => ~Seen(h, "stage3_start")
    ]_vars

\* the turn is over: its request failed, it was aborted or its channel closed
isOver(s) == sessions[s].pc \in {"failed", "aborted", "done"}

\* C17: no automatic retry.  A request is sent only by a run of
\* handleSendMessage that the form or the regenerate button started, one per
\* run; a turn's request is never sent again, and a turn that is over
\* reads nothing more.
C17_NoAutomaticRetry ==
  [][ /\ Len(sessions') # Len(sessions)
         => /\ Len(sessions') = Len(sessions) + 1
            /\ sessions'[Len(sessions')].pc = "opening"
            /\ \/ handleSubmit(input(Len(sessions) + 1), MaxTurns)
               \/ \E i \in 0..(2 * MaxTurns) : handleRegenerateMessage(i, MaxTurns)
      /\ \A s \in Sessions :
           /\ sessions'[s].pc = "opening" => sessions[s].pc = "opening"
           /\ isOver(s) => sessions'[s] = sessions[s]
    ]_vars

\* a turn whose request failed or that the user aborted, then a turn that
\* took a remote error and closed: two requests for two turns
C17_Witness ==
  /\ Len(sessions) = 2
  /\ sessions[1].pc \in {"failed", "aborted"}
  /\ sessions[2].pc = "done"
  /\ Seen(sessions[2].delivered, "error")
  /\ ~isLoading

\* the step hands the event type t of turn s to onEvent
Delivered(s, t) == sessions'[s].delivered = Append(sessions[s].delivered, t)

\* C18: a cancelled event leaves the last message with all four loading
\* flags off, whatever they were, and ends the turn: isLoading false, no
\* controller held.
C18_CancelledClearsAllFlags ==
  [][ \A s \in Sessions :
        ( /\ Delivered(s, "cancelled")
          /\ Len(Messages) > 0
          /\ isAssistant(Messages[Len(Messages)]) )
        => /\ noFlag(Messages'[Len(Messages)])
           /\ ~isLoading'
           /\ abortControllerRef' = NoController
    ]_vars

\* the user can stop the turn that is streaming
CanAbort ==
  /\ ~crashed
  /\ isLoading
  /\ abortControllerRef # NoController
  /\ sessions[abortControllerRef].pc = "streaming"

\* the state after the local abort of handleStopGeneration, and after the
\* cancelled events that may follow it
Aborted == onEvent([View EXCEPT !.abortControllerRef = NoController], "aborted", Ev("aborted"))
AbortedCancelled == onEvent(Aborted, "cancelled", Ev("cancelled"))
CancelledOnce == onEvent(View, "cancelled", Ev("cancelled"))
CancelledTwice == onEvent(CancelledOnce, "cancelled", Ev("cancelled"))

\* the messages and the controller status are the same in both states
SameOutcome(a, b) ==
  /\ a.messages = b.messages
  /\ a.isLoading = b.isLoading
  /\ a.abortControllerRef = b.abortControllerRef
  /\ a.crashed = b.crashed

\* C19: a cancelled event after the local abort is a no-op, and cancelled
\* twice is cancelled once: wherever the user can stop a streaming turn, the
\* messages and the controller status after aborted then cancelled are those
\* after aborted alone, and those after two cancelled events are those
\* after one.
C19_CancelledAfterAbortIsNoOp ==
  CanAbort => /\ SameOutcome(AbortedCancelled, Aborted)
              /\ SameOutcome(CancelledTwice, CancelledOnce)

\* C20: an error event ends the turn (isLoading false, no controller held)
\* and leaves every message as it is: the stage data received so far stay
\* and the user message and the assistant message are not removed.
C20_ErrorKeepsMessages ==
  [][ \A s \in Sessions :
        Delivered(s, "error")
        => /\ Messages' = Messages
           /\ ~isLoading'
           /\ abortControllerRef' = NoController
           /\ toast' = "error"
    ]_vars

\* a turn that took an error after stage1 data and during stage2
C20_Witness ==
  \E s \in Sessions :
    /\ sessions[s].delivered =
         << "stage1_start", "stage1_complete", "stage2_start", "error" >>
    /\ Len(Messages) = Len(sessions[s].before) + 2
    /\ Messages[Len(Messages)].stage1 = Digit(s)
    /\ Messages[Len(Messages)].loading.stage2
    /\ ~isLoading
    /\ abortControllerRef = NoController

\* C21: stage3_complete sets stage3, clears loading.stage3 and ends the
\* turn: after the stage3_complete of the turn that holds the controller,
\* isLoading is false and no controller is held, as after complete, error
\* and cancelled.
C21_Stage3CompleteEndsTurn ==
  [][ \A s \in Sessions :
        ( /\ Delivered(s, "stage3_complete")
          /\ abortControllerRef = s
          /\ Len(Messages) > 0
          /\ isAssistant(Messages[Len(Messages)]) )
        => /\ isSet(Messages'[Len(Messages)].stage3)
           /\ ~Messages'[Len(Messages)].loading.stage3
           /\ ~isLoading'
           /\ abortControllerRef' = NoController
    ]_vars

Stages == {"stage1", "stage2", "stage3"}
StartOf == [stage1 |-> "stage1_start", stage2 |-> "stage2_start", stage3 |-> "stage3_start"]
CompleteOf ==
  [stage1 |-> "stage1_complete", stage2 |-> "stage2_complete", stage3 |-> "stage3_complete"]

\* the complete event of stage n comes out of order for a message that
\* handled h: without the start of the stage, or stage2 before stage1_complete
OutOfOrderFor(n, h) ==
  \/ ~Seen(h, StartOf[n])
  \/ n = "stage2" /\ ~Seen(h, "stage1_complete")

\* C22: stage events out of order are accepted.  A stage's complete event
\* that comes without its start event, or stage2_complete before
\* stage1_complete, sets the data of the stage and leaves its flag off, the
\* turn goes on as it was (isLoading, controller, channel still read), and
\* a complete event still ends the turn.
C22_OutOfOrderAccepted ==
  [][ \A s \in Sessions :
        /\ \A n \in Stages :
             ( /\ Delivered(s, CompleteOf[n])
               /\ Len(Messages) > 0
               /\ isAssistant(Messages[Len(Messages)])
               /\ OutOfOrderFor(n, hist[Len(Messages)]) )
             => /\ Len(Messages') = Len(Messages)
                /\ isSet(Messages'[Len(Messages)][n])
                /\ ~Messages'[Len(Messages)].loading[n]
                /\ isLoading' = isLoading
                /\ abortControllerRef' = abortControllerRef
                /\ sessions'[s].pc = "streaming"
                /\ ~crashed'
        /\ Delivered(s, "complete")
           => /\ ~isLoading'
              /\ abortControllerRef' = NoController
    ]_vars

\* a turn that took stage2_complete, then stage1_complete, both without a
\* start event, and was ended by complete
C22_Witness ==
  \E s \in Sessions :
    /\ sessions[s].delivered =
         << "stage2_complete", "stage1_complete", "stage1_start", "complete" >>
    /\ hist[Len(Messages)] = sessions[s].delivered
    /\ Messages[Len(Messages)].stage1 = Digit(s)
    /\ Messages[Len(Messages)].stage2 = Digit(s)
    /\ ~Messages[Len(Messages)].loading.stage2
    /\ ~isLoading

\* C23: once the local cancel has taken effect on a streaming turn, nothing
\* more of its channel is read or applied.  The step that aborts a
\* streaming turn hands over the aborted pseudo-event, once, and reads
\* nothing; from then on the turn delivers no event and its channel stays
\* as it is.
C23_NothingReadAfterAbort ==
  [][ \A s \in Sessions :
        /\ ( sessions[s].pc = "streaming" /\ sessions'[s].pc = "aborted" )
           => /\ sessions'[s].delivered = Append(sessions[s].delivered, "aborted")
              /\ sessions'[s].wire = sessions[s].wire
        /\ sessions[s].pc = "aborted" => sessions'[s] = sessions[s]
    ]_vars

\* a turn aborted while records of its channel were still to come, after
\* api.cancelRequest has returned
C23_Witness ==
  \E s \in Sessions :
    /\ sessions[s].pc = "aborted"
    /\ sessions[s].wire # <<>>
    /\ sessions[s].delivered = << "stage1_start", "aborted" >>
    /\ hist[Len(Messages)] = << "stage1_start", "aborted" >>
    /\ cancelPending = 0
    /\ ~isLoading

\* C24: a successful regenerate(i) drops the message at position i and all
\* after it, leaves the messages before position i as they are, and runs
\* the send pipeline: before any event arrives the conversation is the
\* messages before i, a new user message with the content of the nearest
\* user message before i, and a fresh partial assistant message.
C24_RegenerateDropsFromTarget ==
  [][ Regenerates =>
        LET new == sessions'[Len(sessions')]
            i == new.arg
        IN /\ Len(Messages') = i + 2
           /\ \A j \in 1..i : Messages'[j] = Messages[j]
           /\ Messages'[i + 1] = userMessage(Messages[NearestUserBefore(i) + 1].content)
           /\ Messages'[i + 2] = assistantMessage
           /\ new.delivered = <<>>
           /\ new.pc = "opening"
           /\ isLoading'
    ]_vars

\* the first answer of a conversation regenerated when a second turn had
\* been added after it: three messages dropped, the user message kept
C24_Witness ==
  /\ Len(sessions) = 2
  /\ sessions[1].op = "sendTurn"
  /\ Len(sessions[1].before) = 2
  /\ sessions[1].pc = "done"
  /\ sessions[2].op = "regenerate"
  /\ sessions[2].arg = 1
  /\ sessions[2].pc = "opening"
  /\ Messages = << userMessage("q0"), userMessage("q0"), assistantMessage >>

\* the step starts a turn from the form
Submits ==
  /\ Len(sessions') = Len(sessions) + 1
  /\ sessions'[Len(sessions')].op = "sendTurn"

\* C25: on sendTurn the user message and then the partial assistant message
\* (no stage data, no flag on) are appended, next to each other, before the
\* channel is open and before any event of the turn is applied.  The step
\* that starts the turn appends both while the request is only pending, and
\* a turn delivers events only once its channel is open.
C25_OptimisticPairAppendedFirst ==
  [][ /\ Submits =>
           LET new == sessions'[Len(sessions')]
               n == Len(Messages)
           IN /\ Len(Messages') = n + 2
              /\ \A j \in 1..n : Messages'[j] = Messages[j]
              /\ Messages'[n + 1] = [role |-> "user", content |-> new.content]
              /\ Messages'[n + 2].role = "assistant"
              /\ Messages'[n + 2].stage1 = Null
              /\ Messages'[n + 2].stage2 = Null
              /\ Messages'[n + 2].stage3 = Null
              /\ Messages'[n + 2].simpleResponse = Null
              /\ noFlag(Messages'[n + 2])
              /\ new.pc = "opening"
              /\ new.delivered = <<>>
      /\ \A s \in Sessions :
           sessions'[s].delivered # sessions[s].delivered => sessions[s].pc = "streaming"
    ]_vars

\* a turn just submitted to a conversation that had a finished turn
C25_Witness ==
  /\ Len(sessions) = 1
  /\ sessions[1].op = "sendTurn"
  /\ sessions[1].pc = "opening"
  /\ Messages = << userMessage("q0"), storedAssistant, userMessage("q1"), assistantMessage >>

\* the step hands events of turn s to the callback
Folds(s) == sessions'[s].delivered # sessions[s].delivered

\* C26: during an active session every event is folded into the pending
\* assistant message that the session's own handleSendMessage created,
\* whatever the user does with the conversation list meanwhile: a step that
\* hands events to the callback finds the session's conversation shown, its
\* last message the one the session appended, and no updater throws.
C26_EventsReachOwnPendingMessage ==
  [][ \A s \in Sessions :
        Folds(s) =>
          /\ currentConversation.id = sessions[s].conversationId
          /\ Len(Messages) = Len(sessions[s].before) + 2
          /\ isAssistant(Messages[Len(Messages)])
          /\ ~crashed'
    ]_vars

\* C27: whenever the controller is not active (isLoading is false and no
\* abort handle is held) no message of the current conversation has one of
\* its four loading flags on.
C27_IdleMeansNoFlag ==
  (~isLoading /\ abortControllerRef = NoController /\ ~crashed)
    => \A i \in 1..Len(Messages) : isAssistant(Messages[i]) => noFlag(Messages[i])

\* turn s has handled a complete or an error event
Finalized(s) ==
  \E k \in 1..Len(sessions[s].delivered) :
    sessions[s].delivered[k] \in {"complete", "error"}

\* C28: once a turn has been finalized by complete or error, the records that
\* arrive later on its channel, which is still open, change no message:
\* neither the message of that turn nor the partial message of a turn
\* started after it.
C28_NothingAppliedAfterFinal ==
  [][ \A s \in Sessions :
        (Finalized(s) /\ Folds(s)) => Messages' = Messages
    ]_vars

\* the step aborts turn c while its fetch is still pending
StopsOpening(c) ==
  /\ abortControllerRef = c
  /\ sessions[c].pc = "opening"
  /\ sessions'[c].pc = "aborted"

\* turn s was aborted before its channel opened
AbortedOpening(s) ==
  /\ sessions[s].pc = "aborted"
  /\ sessions[s].delivered = <<>>

\* C29: when the stop takes effect while the request is still pending, the
\* turn ends without rollback and without the aborted pseudo-event.  The
\* stop leaves every message as it is, hands no event to the callback and
\* releases the controller while isLoading stays true; the turn does nothing
\* afterwards; and when api.cancelRequest returns, with that turn still the
\* last one, isLoading becomes false, no controller is held and the
\* messages are the same.
C29_StopWhileOpeningKeepsPair ==
  [][ /\ \A c \in Sessions :
           StopsOpening(c) =>
             /\ Messages' = Messages
             /\ hist' = hist
             /\ sessions'[c].delivered = <<>>
             /\ abortControllerRef' = NoController
             /\ isLoading'
             /\ cancelPending' = cancelPending + 1
      /\ \A s \in Sessions : AbortedOpening(s) => sessions'[s] = sessions[s]
      /\ (cancelPending' < cancelPending /\ AbortedOpening(Len(sessions)))
           => /\ ~isLoading'
              /\ abortControllerRef' = NoController
              /\ Messages' = Messages
    ]_vars

\* the first turn of a new conversation, stopped while its request was
\* pending, after api.cancelRequest returned: both messages are there
C29_Witness ==
  /\ Len(sessions) = 1
  /\ AbortedOpening(1)
  /\ cancelPending = 0
  /\ ~isLoading
  /\ abortControllerRef = NoController
  /\ Messages = << userMessage("q1"), assistantMessage >>

\* the chairman is not an expert and no expert is listed twice
ChairmanApart ==
  /\ ~includes(settings.experts, settings.chairman)
  /\ \A i, j \in 1..Len(settings.experts) :
       settings.experts[i] = settings.experts[j] => i = j

\* the step selects as chairman a provider that is an expert
SelectsExpert ==
  /\ settingsOp'.op = "select"
  /\ settingsOp'.prev = settings
  /\ includes(settings.experts, settingsOp'.providerId)

\* C30: on the settings page the chairman is never one of the experts and
\* the experts list has no duplicates; selecting an expert as chairman
\* while there is a chairman swaps the two, so that the number of experts
\* is the same, and while there is no chairman it takes the provider out
\* of the experts, which are then one fewer.
C30_ChairmanNeverExpert ==
  /\ []ChairmanApart
  /\ [][ SelectsExpert =>
           LET p == settingsOp'.providerId IN
           /\ settings'.chairman = p
           /\ ~includes(settings'.experts, p)
           /\ IF settings.chairman # ""
                THEN /\ Len(settings'.experts) = Len(settings.experts)
                     /\ settings'.experts =
                          Append(filter(settings.experts, p), settings.chairman)
                ELSE /\ Len(settings'.experts) = Len(settings.experts) - 1
                     /\ settings'.experts = filter(settings.experts, p)
       ]_vars

\* C30 as stated: selecting an expert as chairman always leaves the number
\* of experts unchanged.
C30_SelectingExpertKeepsCount ==
  /\ []ChairmanApart
  /\ [][ SelectsExpert => Len(settings'.experts) = Len(settings.experts) ]_vars

\* the chairman and an expert have just changed places
C30_Witness ==
  /\ settingsOp.op = "select"
  /\ settingsOp.prev = [chairman |-> "1", experts |-> << "2", "3" >>]
  /\ settingsOp.providerId = "2"
  /\ settings = [chairman |-> "2", experts |-> << "3", "1" >>]

=============================================================================
